---- MODULE Spec2Model ----
(***************************************************************************)
(* The repair-and-diagnose engine of json-repair: repairJson,              *)
(* detectOriginalJsonErrors, locateJsonError and getErrorSuggestion of     *)
(* utils/jsonUtils, and safeParse of hooks/useJsonProcessor.               *)
(*                                                                         *)
(* Texts are TLA+ strings; TLC reads a string as the sequence of its       *)
(* characters (Len, SubSeq, \o), so offsets, lines and columns are the     *)
(* code's own.  A JavaScript index k is the TLA+ index k + 1.              *)
(***************************************************************************)
EXTENDS Integers, Sequences, FiniteSets, TLC

(***************************************************************************)
(* Characters and character classes of the regular expressions.           *)
(***************************************************************************)
Ch(s, i) == IF i >= 1 /\ i <= Len(s) THEN SubSeq(s, i, i) ELSE ""

From(s, i) == IF i > Len(s) THEN "" ELSE SubSeq(s, i, Len(s))

Upto(s, i) == IF i < 1 THEN "" ELSE SubSeq(s, 1, i)

Mid(s, i, j) == IF j < i THEN "" ELSE SubSeq(s, i, j)

StartsAt(s, i, w) == i + Len(w) - 1 <= Len(s) /\ SubSeq(s, i, i + Len(w) - 1) = w

Digit == {"0", "1", "2", "3", "4", "5", "6", "7", "8", "9"}

LowerAlpha == {"a", "b", "c", "d", "e", "f", "g", "h", "i", "j", "k", "l", "m",
               "n", "o", "p", "q", "r", "s", "t", "u", "v", "w", "x", "y", "z"}

UpperAlpha == {"A", "B", "C", "D", "E", "F", "G", "H", "I", "J", "K", "L", "M",
               "N", "O", "P", "Q", "R", "S", "T", "U", "V", "W", "X", "Y", "Z"}

\* [A-Za-z_]
IdentStart == LowerAlpha \cup UpperAlpha \cup {"_"}

\* \w
WordChar == IdentStart \cup Digit

\* [\w-]
IdentChar == WordChar \cup {"-"}

\* [0-9a-fA-F]
HexDigit == Digit \cup {"a", "b", "c", "d", "e", "f", "A", "B", "C", "D", "E", "F"}

\* the line terminators of '.', '^' and '$' that the texts can hold
LineTerm == {"\n", "\r"}

\* \s, and what String.prototype.trim strips ("^" stands for U+FEFF, see BOM)
Space == {" ", "\t", "\n", "\r", "\f", "^"}

\* the whitespace of the JSON grammar
JsonWs == {" ", "\t", "\n", "\r"}

\* characters that may not appear raw inside a JSON string
JsonControl == {"\t", "\n", "\r", "\f"}

RECURSIVE SkipSet(_, _, _)
\* the index after the longest run of characters of set C that starts at i
SkipSet(s, i, C) == IF Ch(s, i) \in C THEN SkipSet(s, i + 1, C) ELSE i

\* \b at the gap before index i
WordBoundary(s, i) == (Ch(s, i - 1) \in WordChar) # (Ch(s, i) \in WordChar)

\* ^ under the m flag, at the gap before index i
LineStart(s, i) == i = 1 \/ Ch(s, i - 1) \in LineTerm

\* $ under the m flag, at the gap before index i
LineEnd(s, i) == i = Len(s) + 1 \/ Ch(s, i) \in LineTerm

\* the least element of a set of indices, 0 when it is empty
\* F of the value of v, v worked out once
With(v, F(_)) == F(v)

Least(P) == IF P = {} THEN 0 ELSE CHOOSE p \in P : \A q \in P : p <= q

\* the greatest element of a set of indices, 0 when it is empty
Greatest(P) == IF P = {} THEN 0 ELSE CHOOSE p \in P : \A q \in P : p >= q

\* String.prototype.indexOf(w, from) as a TLA+ index; 0 when absent
IndexOfFrom(s, w, i) == Least({j \in i..Len(s) : StartsAt(s, j, w)})

Includes(s, w) == IndexOfFrom(s, w, 1) # 0

\* String.prototype.trim
Trim(s) ==
  LET a == SkipSet(s, 1, Space)
      b == CHOOSE j \in 0..Len(s) :
             /\ \A k \in (j + 1)..Len(s) : Ch(s, k) \in Space
             /\ (j = 0 \/ Ch(s, j) \notin Space)
  IN Mid(s, a, b)

(***************************************************************************)
(* The strict JSON parser (JSON.parse), as a recursive-descent reader.    *)
(* A read returns [ok, next, canon]: next is the index after the value,   *)
(* or the index of the offending character when ok is FALSE; canon is the *)
(* value written without insignificant whitespace.                        *)
(***************************************************************************)
\* what: what the parser was after when it gave up at index i
Fail(i, what) == [ok |-> FALSE, next |-> i, canon |-> "", what |-> what]

Done(i, c) == [ok |-> TRUE, next |-> i, canon |-> c, what |-> ""]

JsonEscape == {"\"", "\\", "/", "b", "f", "n", "r", "t"}

RECURSIVE StringEnd(_, _)
\* s[i] is the first character after the opening quote; the index of the
\* closing quote, or minus the index where the string goes wrong
StringEnd(s, i) ==
  LET c == Ch(s, i) IN
  IF c = "" THEN 0 - i
  ELSE IF c = "\"" THEN i
  ELSE IF c \in JsonControl THEN 0 - i
  ELSE IF c = "\\" THEN
    IF Ch(s, i + 1) \in JsonEscape THEN StringEnd(s, i + 2)
    ELSE IF Ch(s, i + 1) = "u" /\ \A k \in 2..5 : Ch(s, i + k) \in HexDigit
      THEN StringEnd(s, i + 6)
    ELSE 0 - (i + 1)
  ELSE StringEnd(s, i + 1)

ParseString(s, i) ==
  With(StringEnd(s, i + 1), LAMBDA e :
    IF e > 0 THEN Done(e + 1, SubSeq(s, i, e))
    ELSE IF Ch(s, 0 - e) = "" THEN Fail(0 - e, "unterminated string")
    ELSE IF Ch(s, 0 - e) \in JsonControl THEN Fail(0 - e, "control character")
    ELSE Fail(0 - e, "escape"))

\* -? (0 | [1-9][0-9]*) (\. [0-9]+)? ([eE] [+-]? [0-9]+)?
\* a: after the sign, b: after the integer, c: after the fraction,
\* x: after the e and its sign, d: after the exponent
NumberRead(s, i, a, b, c, x, d) ==
  IF b = a THEN Fail(a, "digit after minus")
  ELSE IF Ch(s, b) = "." /\ c = b + 1 THEN Fail(c, "fraction digit")
  ELSE IF x # c /\ d = x THEN Fail(x, "exponent digit")
  ELSE Done(d, SubSeq(s, i, d - 1))

ParseNumber(s, i) ==
  With(IF Ch(s, i) = "-" THEN i + 1 ELSE i, LAMBDA a :
  With(IF Ch(s, a) = "0" THEN a + 1 ELSE SkipSet(s, a, Digit), LAMBDA b :
  With(IF Ch(s, b) = "." THEN SkipSet(s, b + 1, Digit) ELSE b, LAMBDA c :
  With(IF Ch(s, c) \in {"e", "E"}
         THEN IF Ch(s, c + 1) \in {"+", "-"} THEN c + 2 ELSE c + 1
         ELSE c, LAMBDA x :
    NumberRead(s, i, a, b, c, x, IF x = c THEN c ELSE SkipSet(s, x, Digit))))))

\* where the text from i on first departs from the literal w
Departure(s, i, w) == i - 1 + Least({k \in 1..Len(w) : Ch(s, i + k - 1) # Ch(w, k)})

ParseLiteral(s, i) ==
  IF StartsAt(s, i, "true") THEN Done(i + 4, "true")
  ELSE IF StartsAt(s, i, "false") THEN Done(i + 5, "false")
  ELSE IF StartsAt(s, i, "null") THEN Done(i + 4, "null")
  ELSE IF Ch(s, i) = "t" THEN Fail(Departure(s, i, "true"), "value")
  ELSE IF Ch(s, i) = "f" THEN Fail(Departure(s, i, "false"), "value")
  ELSE IF Ch(s, i) = "n" THEN Fail(Departure(s, i, "null"), "value")
  ELSE Fail(i, "value")

RECURSIVE ParseValue(_, _)
RECURSIVE ParseElements(_, _, _)
RECURSIVE ParseMembers(_, _, _)

\* after '[' or ',': value, then ',' or ']'
ParseElements(s, i, acc) ==
  With(ParseValue(s, SkipSet(s, i, JsonWs)), LAMBDA v :
    IF ~v.ok THEN v
    ELSE With(SkipSet(s, v.next, JsonWs), LAMBDA j :
      IF Ch(s, j) = "," THEN ParseElements(s, j + 1, acc \o v.canon \o ",")
      ELSE IF Ch(s, j) = "]" THEN Done(j + 1, acc \o v.canon \o "]")
      ELSE Fail(j, "comma or bracket")))

\* after the key and its ':': value, then ',' or '}'
ParseMember(s, i, acc) ==
  With(ParseValue(s, SkipSet(s, i, JsonWs)), LAMBDA v :
    IF ~v.ok THEN v
    ELSE With(SkipSet(s, v.next, JsonWs), LAMBDA j :
      IF Ch(s, j) = "," THEN ParseMembers(s, j + 1, acc \o v.canon \o ",")
      ELSE IF Ch(s, j) = "}" THEN Done(j + 1, acc \o v.canon \o "}")
      ELSE Fail(j, "comma or brace")))

\* after '{' or ',': string, ':', then the member's value
ParseMembers(s, i, acc) ==
  With(SkipSet(s, i, JsonWs), LAMBDA k :
    IF Ch(s, k) # "\"" THEN Fail(k, IF acc = "{" THEN "first name" ELSE "name")
    ELSE With(ParseString(s, k), LAMBDA key :
      IF ~key.ok THEN key
      ELSE With(SkipSet(s, key.next, JsonWs), LAMBDA c :
        IF Ch(s, c) # ":" THEN Fail(c, "colon")
        ELSE ParseMember(s, c + 1, acc \o key.canon \o ":"))))

ParseValue(s, i) ==
  With(Ch(s, i), LAMBDA c :
    IF c = "{" THEN
      IF Ch(s, SkipSet(s, i + 1, JsonWs)) = "}"
        THEN Done(SkipSet(s, i + 1, JsonWs) + 1, "{}")
        ELSE ParseMembers(s, i + 1, "{")
    ELSE IF c = "[" THEN
      IF Ch(s, SkipSet(s, i + 1, JsonWs)) = "]"
        THEN Done(SkipSet(s, i + 1, JsonWs) + 1, "[]")
        ELSE ParseElements(s, i + 1, "[")
    ELSE IF c = "\"" THEN ParseString(s, i)
    ELSE IF c = "-" \/ c \in Digit THEN ParseNumber(s, i)
    ELSE ParseLiteral(s, i))

\* JSON.parse(text): [ok, next, canon, what]; next is the offending index on failure
JsonParse(s) ==
  With(ParseValue(s, SkipSet(s, 1, JsonWs)), LAMBDA v :
    IF ~v.ok THEN v
    ELSE IF SkipSet(s, v.next, JsonWs) = Len(s) + 1 THEN v
    ELSE Fail(SkipSet(s, v.next, JsonWs), "end"))

JsonValid(s) == JsonParse(s).ok

(***************************************************************************)
(* String.prototype.replace.  A pattern is an operator M(s, i) giving the  *)
(* match that starts at index i as [len, out]: the length matched and what *)
(* replaces it; len = 0 is no match (no pattern here matches the empty     *)
(* string).  The scan is the regular expression engine's: leftmost match,  *)
(* then on from the end of the match.                                      *)
(***************************************************************************)
NoMatch == [len |-> 0, out |-> ""]

Match(n, o) == [len |-> n, out |-> o]

RECURSIVE ReplaceFrom(_, _, _, _)
\* P holds the indices at which the pattern matches
ReplaceFrom(M(_, _), s, i, P) ==
  With(Least({p \in P : p >= i}), LAMBDA j :
    IF j = 0 THEN From(s, i)
    ELSE With(M(s, j), LAMBDA m :
      Mid(s, i, j - 1) \o m.out \o ReplaceFrom(M, s, j + m.len, P)))

MatchStarts(M(_, _), s) == {p \in 1..Len(s) : M(s, p).len > 0}

\* s.replace(/.../g, ...)
ReplaceAll(M(_, _), s) == ReplaceFrom(M, s, 1, MatchStarts(M, s))

FirstMatch(M(_, _), s) == Least(MatchStarts(M, s))

\* s.replace(/.../, ...) without the g flag
ReplaceFirst(M(_, _), s) ==
  With(FirstMatch(M, s), LAMBDA i :
    IF i = 0 THEN s
    ELSE With(M(s, i), LAMBDA m : Upto(s, i - 1) \o m.out \o From(s, i + m.len)))

\* s.match(/.../) # null
Matches(M(_, _), s) == FirstMatch(M, s) # 0

\* the index of the first line terminator at or after i, or Len(s) + 1: where .* stops
EndOfLine(s, i) == Least({j \in i..(Len(s) + 1) : j = Len(s) + 1 \/ Ch(s, j) \in LineTerm})

\* the last index p of i..e at which Q(s, p) holds, or 0: where a greedy \s*
\* that ran from i to e gives back to
LastWhere(Q(_, _), s, i, e) == Greatest({p \in i..e : Q(s, p)})

IsNewline(s, i) == Ch(s, i) \in {"\r", "\n"}

(***************************************************************************)
(* repairJson: the comment patterns.                                       *)
(***************************************************************************)
\* /\/\*[\s\S]*?\*\//g -> ''
BlockComment(s, i) ==
  IF ~StartsAt(s, i, "/*") THEN NoMatch
  ELSE LET e == IndexOfFrom(s, "*/", i + 2) IN
       IF e = 0 THEN NoMatch ELSE Match(e + 2 - i, "")

\* /(^|[^:])\/\/.*$/gm -> ''   (the character before the // goes with it)
LineComment(s, i) ==
  IF LineStart(s, i) /\ StartsAt(s, i, "//") THEN Match(EndOfLine(s, i + 2) - i, "")
  ELSE IF Ch(s, i) # ":" /\ StartsAt(s, i + 1, "//")
    THEN Match(EndOfLine(s, i + 3) - i, "")
  ELSE NoMatch

\* /#.*$/gm -> ''
HashComment(s, i) ==
  IF Ch(s, i) = "#" THEN Match(EndOfLine(s, i + 1) - i, "") ELSE NoMatch

\* /;.*$/gm -> ''
SemicolonComment(s, i) ==
  IF Ch(s, i) = ";" THEN Match(EndOfLine(s, i + 1) - i, "") ELSE NoMatch

\* /^\s*[\r\n]/gm -> ''
EmptyLine(s, i) ==
  IF ~LineStart(s, i) THEN NoMatch
  ELSE LET k == LastWhere(IsNewline, s, i, SkipSet(s, i, Space) - 1) IN
       IF k = 0 THEN NoMatch ELSE Match(k - i + 1, "")

(***************************************************************************)
(* repairJson: quoting of unquoted keys and values.                        *)
(***************************************************************************)
\* opener \s* identifier \s* closer, with the identifier put in quotes:
\* '$1"$2"$3'
QuoteBetween(s, i, openers, closers) ==
  LET a == SkipSet(s, i + 1, Space)
      b == SkipSet(s, a + 1, IdentChar)
      c == SkipSet(s, b, Space)
  IN IF Ch(s, i) \in openers /\ Ch(s, a) \in IdentStart /\ Ch(s, c) \in closers
       THEN Match(c - i + 1,
                  Mid(s, i, a - 1) \o "\"" \o Mid(s, a, b - 1) \o "\"" \o Mid(s, b, c))
       ELSE NoMatch

\* opener \s* identifier (\s*$), with the identifier put in quotes and the
\* trailing blanks dropped: '$1"$2"'
QuoteAtLineEnd(s, i, openers) ==
  LET a == SkipSet(s, i + 1, Space)
      b == SkipSet(s, a + 1, IdentChar)
      p == LastWhere(LineEnd, s, b, SkipSet(s, b, Space))
  IN IF Ch(s, i) \in openers /\ Ch(s, a) \in IdentStart /\ p # 0
       THEN Match(p - i, Mid(s, i, a - 1) \o "\"" \o Mid(s, a, b - 1) \o "\"")
       ELSE NoMatch

\* /([,{]\s*)([A-Za-z_][\w-]*)(\s*:)/g
UnquotedKey(s, i) == QuoteBetween(s, i, {",", "{"}, {":"})

\* /(:\s*)(?!")([A-Za-z_][\w-]*)(\s*[,}])/g
UnquotedValue(s, i) == QuoteBetween(s, i, {":"}, {",", "}"})

\* /(:\s*)(?!")([A-Za-z_][\w-]*)(\s*$)/gm
UnquotedValueAtEnd(s, i) == QuoteAtLineEnd(s, i, {":"})

\* /([\[,]\s*)(?!")([A-Za-z_][\w-]*)(\s*[,}\]])/g
UnquotedItem(s, i) == QuoteBetween(s, i, {"[", ","}, {",", "}", "]"})

\* /([\[,]\s*)(?!")([A-Za-z_][\w-]*)(\s*$)/gm
UnquotedItemAtEnd(s, i) == QuoteAtLineEnd(s, i, {"[", ","})

(***************************************************************************)
(* repairJson: single quotes to double quotes.                             *)
(***************************************************************************)
\* /\\\\/g -> '\\\\'
DoubleBackslash(s, i) == IF StartsAt(s, i, "\\\\") THEN Match(2, "\\\\") ELSE NoMatch

\* /\\'/g -> "'"
EscapedSingleQuote(s, i) == IF StartsAt(s, i, "\\'") THEN Match(2, "'") ELSE NoMatch

\* /"/g -> '\\"'
BareDoubleQuote(s, i) == IF Ch(s, i) = "\"" THEN Match(1, "\\\"") ELSE NoMatch

EscapeInner(inner) ==
  ReplaceAll(BareDoubleQuote,
    ReplaceAll(EscapedSingleQuote,
      ReplaceAll(DoubleBackslash, inner)))

\* the inner while loop: the first index at or after e that holds a quote
\* not preceded by a backslash, or Len(s) + 1
ClosingQuote(s, e) ==
  Least({j \in e..(Len(s) + 1) :
           j = Len(s) + 1 \/ (Ch(s, j) = "'" /\ Ch(s, j - 1) # "\\")})

\* the outer while loop, from scan position pos
RECURSIVE SingleToDouble(_, _)
SingleToDouble(s, pos) ==
  IF pos > Len(s) THEN s
  ELSE With(IndexOfFrom(s, "'", pos), LAMBDA quotePos :
    IF quotePos = 0 THEN s
    ELSE With(ClosingQuote(s, quotePos + 1), LAMBDA endPos :
      IF endPos <= Len(s)
        THEN With("\"" \o EscapeInner(Mid(s, quotePos + 1, endPos - 1)) \o "\"",
                  LAMBDA replacement :
               SingleToDouble(
                 Upto(s, quotePos - 1) \o replacement \o From(s, endPos + 1),
                 quotePos + Len(replacement)))
        ELSE SingleToDouble(s, quotePos + 1)))

\* an iteration that stays on the quote it could not close
QuoteIterationStayingOnOpenQuote(s, pos) ==
  IF pos > Len(s) THEN [s |-> s, pos |-> pos, done |-> TRUE]
  ELSE With(IndexOfFrom(s, "'", pos), LAMBDA quotePos :
    IF quotePos = 0 THEN [s |-> s, pos |-> pos, done |-> TRUE]
    ELSE With(ClosingQuote(s, quotePos + 1), LAMBDA endPos :
      IF endPos <= Len(s)
        THEN With("\"" \o EscapeInner(Mid(s, quotePos + 1, endPos - 1)) \o "\"",
                  LAMBDA replacement :
               [s |-> Upto(s, quotePos - 1) \o replacement \o From(s, endPos + 1),
                pos |-> quotePos + Len(replacement), done |-> FALSE])
        ELSE [s |-> s, pos |-> quotePos, done |-> FALSE]))

\* one turn of the outer while loop: the test of its condition, and its body
\* when the test passes; done is the exit, by the condition or by break
QuoteIteration(s, pos) ==
  IF pos > Len(s) THEN [s |-> s, pos |-> pos, done |-> TRUE]
  ELSE With(IndexOfFrom(s, "'", pos), LAMBDA quotePos :
    IF quotePos = 0 THEN [s |-> s, pos |-> pos, done |-> TRUE]
    ELSE With(ClosingQuote(s, quotePos + 1), LAMBDA endPos :
      IF endPos <= Len(s)
        THEN With("\"" \o EscapeInner(Mid(s, quotePos + 1, endPos - 1)) \o "\"",
                  LAMBDA replacement :
               [s |-> Upto(s, quotePos - 1) \o replacement \o From(s, endPos + 1),
                pos |-> quotePos + Len(replacement), done |-> FALSE])
        ELSE [s |-> s, pos |-> quotePos + 1, done |-> FALSE]))

(***************************************************************************)
(* repairJson: literals and numbers.                                       *)
(***************************************************************************)
\* /\bw\b/g -> out
WholeWord(s, i, w, out) ==
  IF WordBoundary(s, i) /\ StartsAt(s, i, w) /\ WordBoundary(s, i + Len(w))
    THEN Match(Len(w), out)
    ELSE NoMatch

PyTrue(s, i) == WholeWord(s, i, "True", "true")

PyFalse(s, i) == WholeWord(s, i, "False", "false")

PyNone(s, i) == WholeWord(s, i, "None", "null")

\* /-Infinity/g -> 'null'
MinusInfinity(s, i) == IF StartsAt(s, i, "-Infinity") THEN Match(9, "null") ELSE NoMatch

JsNaN(s, i) == WholeWord(s, i, "NaN", "null")

JsInfinity(s, i) == WholeWord(s, i, "Infinity", "null")

JsUndefined(s, i) == WholeWord(s, i, "undefined", "null")

\* /\b0p[digits]+\b/g -> 'null'
RadixLiteral(s, i, prefix, digits) ==
  LET e == SkipSet(s, i + 2, digits) IN
  IF WordBoundary(s, i) /\ StartsAt(s, i, prefix) /\ e > i + 2 /\ WordBoundary(s, e)
    THEN Match(e - i, "null")
    ELSE NoMatch

HexLiteral(s, i) == RadixLiteral(s, i, "0x", HexDigit)

BinaryLiteral(s, i) == RadixLiteral(s, i, "0b", {"0", "1"})

OctalLiteral(s, i) == RadixLiteral(s, i, "0o", {"0", "1", "2", "3", "4", "5", "6", "7"})

\* /(:\s*)0([1-9]\d*)/g -> '$1$2'
LeadingZero(s, i) ==
  LET a == SkipSet(s, i + 1, Space)
      b == SkipSet(s, a + 2, Digit)
  IN IF Ch(s, i) = ":" /\ Ch(s, a) = "0" /\ Ch(s, a + 1) \in Digit \ {"0"}
       THEN Match(b - i, Mid(s, i, a - 1) \o Mid(s, a + 1, b - 1))
       ELSE NoMatch

\* /(:\s*)\.(\d+)/g -> '$10.$2'   ($10 is $1 then 0: there are two groups)
LeadingDecimal(s, i) ==
  LET a == SkipSet(s, i + 1, Space)
      b == SkipSet(s, a + 1, Digit)
  IN IF Ch(s, i) = ":" /\ Ch(s, a) = "." /\ b > a + 1
       THEN Match(b - i, Mid(s, i, a - 1) \o "0." \o Mid(s, a + 1, b - 1))
       ELSE NoMatch

\* /(\d+)c(?=\s*[,}\]])/g -> '$1' \o tail
DigitsThen(s, i, c, tail) ==
  LET b == SkipSet(s, i, Digit) IN
  IF b > i /\ Ch(s, b) = c /\ Ch(s, SkipSet(s, b + 1, Space)) \in {",", "}", "]"}
    THEN Match(b - i + 1, Mid(s, i, b - 1) \o tail)
    ELSE NoMatch

\* /(\d+)\.(?=\s*[,}\]])/g -> '$1.0'
TrailingDecimal(s, i) == DigitsThen(s, i, ".", ".0")

\* /(\d+)e(?=\s*[,}\]])/g -> '$1'
IncompleteExpLower(s, i) == DigitsThen(s, i, "e", "")

\* /(\d+)E(?=\s*[,}\]])/g -> '$1'
IncompleteExpUpper(s, i) == DigitsThen(s, i, "E", "")

\* /"null"/g -> 'null'
QuotedNull(s, i) == IF StartsAt(s, i, "\"null\"") THEN Match(6, "null") ELSE NoMatch

(***************************************************************************)
(* repairJson: commas.                                                     *)
(***************************************************************************)
\* /,\s*([}\]])/g -> '$1'
TrailingComma(s, i) ==
  LET c == SkipSet(s, i + 1, Space) IN
  IF Ch(s, i) = "," /\ Ch(s, c) \in {"}", "]"} THEN Match(c - i + 1, Ch(s, c)) ELSE NoMatch

\* /,\s*[=;]/g -> ''
CommaBeforeInvalid(s, i) ==
  LET c == SkipSet(s, i + 1, Space) IN
  IF Ch(s, i) = "," /\ Ch(s, c) \in {"=", ";"} THEN Match(c - i + 1, "") ELSE NoMatch

\* /,\s*$/ -> ''   (no flags: $ is the end of the input, first match only)
DanglingComma(s, i) ==
  IF Ch(s, i) = "," /\ SkipSet(s, i + 1, Space) = Len(s) + 1
    THEN Match(Len(s) + 1 - i, "")
    ELSE NoMatch

\* /(\s*)c\s*(\s*[a-zA-Z_][a-zA-Z0-9_]*\s*:)/g -> '$1c,$2'
CloserThenKey(s, i, c) ==
  LET a == SkipSet(s, i, Space)
      b == SkipSet(s, a + 1, Space)
      e == SkipSet(s, b + 1, WordChar)
      d == SkipSet(s, e, Space)
  IN IF Ch(s, a) = c /\ Ch(s, b) \in IdentStart /\ Ch(s, d) = ":"
       THEN Match(d - i + 1, Mid(s, i, a - 1) \o c \o "," \o Mid(s, b, d))
       ELSE NoMatch

\* /(\s*)c\s*(\s*o)/g -> '$1c,$2'
CloserThenOpener(s, i, c, o) ==
  LET a == SkipSet(s, i, Space)
      b == SkipSet(s, a + 1, Space)
  IN IF Ch(s, a) = c /\ Ch(s, b) = o
       THEN Match(b - i + 1, Mid(s, i, a - 1) \o c \o "," \o o)
       ELSE NoMatch

\* "] property:"
BracketThenKey(s, i) == CloserThenKey(s, i, "]")

\* "} property:"
BraceThenKey(s, i) == CloserThenKey(s, i, "}")

\* "] {"
BracketThenBrace(s, i) == CloserThenOpener(s, i, "]", "{")

\* "} ["
BraceThenBracket(s, i) == CloserThenOpener(s, i, "}", "[")

(***************************************************************************)
(* repairJson: the last normalisations.  A TLA+ string holds ASCII only,   *)
(* so the non-ASCII code points these rules name have ASCII stand-ins that *)
(* no other rule gives a meaning to.                                       *)
(***************************************************************************)
\* U+2018 and U+2019
CurlySingle == {"?"}

\* U+201C and U+201D
CurlyDouble == {"~"}

\* U+FEFF
BOM == "^"

\* /[\u2018\u2019]/g -> "'"
CurlySingleQuote(s, i) == IF Ch(s, i) \in CurlySingle THEN Match(1, "'") ELSE NoMatch

\* /[\u201C\u201D]/g -> '"'
CurlyDoubleQuote(s, i) == IF Ch(s, i) \in CurlyDouble THEN Match(1, "\"") ELSE NoMatch

\* /^\uFEFF/ -> ''
LeadingBOM(s, i) == IF i = 1 /\ Ch(s, i) = BOM THEN Match(1, "") ELSE NoMatch

(***************************************************************************)
(* repairJson.  Rule(k, s) is the k-th rewrite in the order of the code;   *)
(* ApplyRules runs rules k..n one after the other, each on the result of   *)
(* the one before, as the forEach loops and the statements do.             *)
(***************************************************************************)
Rule(k, s) ==
  CASE k = 1 -> ReplaceAll(BlockComment, s)
    [] k = 2 -> ReplaceAll(LineComment, s)
    [] k = 3 -> ReplaceAll(HashComment, s)
    [] k = 4 -> ReplaceAll(SemicolonComment, s)
    [] k = 5 -> ReplaceAll(EmptyLine, s)
    [] k = 6 -> ReplaceAll(UnquotedKey, s)
    [] k = 7 -> ReplaceAll(UnquotedValue, s)
    [] k = 8 -> ReplaceAll(UnquotedValueAtEnd, s)
    [] k = 9 -> ReplaceAll(UnquotedItem, s)
    [] k = 10 -> ReplaceAll(UnquotedItemAtEnd, s)
    [] k = 11 -> SingleToDouble(s, 1)
    [] k = 12 -> ReplaceAll(PyTrue, s)
    [] k = 13 -> ReplaceAll(PyFalse, s)
    [] k = 14 -> ReplaceAll(PyNone, s)
    [] k = 15 -> ReplaceAll(MinusInfinity, s)
    [] k = 16 -> ReplaceAll(JsNaN, s)
    [] k = 17 -> ReplaceAll(JsInfinity, s)
    [] k = 18 -> ReplaceAll(JsUndefined, s)
    [] k = 19 -> ReplaceAll(HexLiteral, s)
    [] k = 20 -> ReplaceAll(BinaryLiteral, s)
    [] k = 21 -> ReplaceAll(OctalLiteral, s)
    [] k = 22 -> ReplaceAll(LeadingZero, s)
    [] k = 23 -> ReplaceAll(LeadingDecimal, s)
    [] k = 24 -> ReplaceAll(TrailingDecimal, s)
    [] k = 25 -> ReplaceAll(IncompleteExpLower, s)
    [] k = 26 -> ReplaceAll(IncompleteExpUpper, s)
    [] k = 27 -> ReplaceAll(QuotedNull, s)
    [] k = 28 -> ReplaceAll(TrailingComma, s)
    [] k = 29 -> ReplaceAll(CommaBeforeInvalid, s)
    [] k = 30 -> ReplaceFirst(DanglingComma, s)
    [] k = 31 -> ReplaceAll(BracketThenKey, s)
    [] k = 32 -> ReplaceAll(BraceThenKey, s)
    [] k = 33 -> ReplaceAll(BracketThenBrace, s)
    [] k = 34 -> ReplaceAll(BraceThenBracket, s)
    [] k = 35 -> ReplaceAll(CurlySingleQuote, s)
    [] k = 36 -> ReplaceAll(CurlyDoubleQuote, s)
    [] k = 37 -> ReplaceFirst(LeadingBOM, s)
    [] k = 38 -> Trim(s)

\* the comment patterns are rules 1..LastCommentRule, the rest follow the
\* validity check of the raw text
LastCommentRule == 5

LastRule == 38

RECURSIVE ApplyRules(_, _, _)
ApplyRules(k, n, s) ==
  IF k > n THEN s
  ELSE With(Rule(k, s), LAMBDA v :
    IF v = s THEN ApplyRules(k + 1, n, s) ELSE ApplyRules(k + 1, n, v))

StripComments(text) == ApplyRules(1, LastCommentRule, text)

\* repairJson with the check for already valid JSON left out
repairJsonWithoutShortCircuit(text) ==
  IF text = "" THEN ""
  ELSE ApplyRules(LastCommentRule + 1, LastRule, StripComments(text))

\* repairJson returning s, the text without its comments, for already valid JSON
repairJsonReturningStripped(text) ==
  IF text = "" THEN ""
  ELSE IF JsonValid(text) THEN StripComments(text)
  ELSE ApplyRules(LastCommentRule + 1, LastRule, StripComments(text))

repairJson(text) ==
  IF text = "" THEN ""
  ELSE IF JsonValid(text) THEN text
  ELSE ApplyRules(LastCommentRule + 1, LastRule, StripComments(text))

(***************************************************************************)
(* Optional values (null, undefined) are sets of at most one element.      *)
(***************************************************************************)
None == {}

Some(v) == {v}

The(o) == CHOOSE v \in o : TRUE

\* x || undefined, for a number
TruthyNumber(o) == {v \in o : v # 0}

\* x || undefined, for a string
TruthyString(o) == {v \in o : v # ""}

(***************************************************************************)
(* Numbers in messages: String(n) and parseInt(digits, 10).                *)
(***************************************************************************)
DigitOf(d) == CHOOSE c \in Digit : c = SubSeq("0123456789", d + 1, d + 1)

RECURSIVE NumToStr(_)
NumToStr(n) == IF n < 10 THEN DigitOf(n) ELSE NumToStr(n \div 10) \o DigitOf(n % 10)

ValueOf(c) == CHOOSE d \in 0..9 : DigitOf(d) = c

RECURSIVE ParseInt(_)
ParseInt(w) ==
  IF Len(w) = 1 THEN ValueOf(w)
  ELSE 10 * ParseInt(SubSeq(w, 1, Len(w) - 1)) + ValueOf(Ch(w, Len(w)))

(***************************************************************************)
(* What the strict parser throws.  The message of a failed JSON.parse is   *)
(* the engine's, and the code relies on no one shape of it: a failed parse *)
(* yields any one of the shapes below, for the offset p at which the text  *)
(* stops being JSON and the character c found there.                       *)
(***************************************************************************)
Engines == {"V8 10", "V8 11"}

\* V8 up to version 10 names the kind of token it met
ClassicMessage(c, p) ==
  IF c = "" THEN "Unexpected end of JSON input"
  ELSE IF c \in Digit \cup {"-"} THEN "Unexpected number in JSON at position " \o NumToStr(p)
  ELSE IF c = "\"" THEN "Unexpected string in JSON at position " \o NumToStr(p)
  ELSE "Unexpected token " \o c \o " in JSON at position " \o NumToStr(p)

\* V8 from version 11 on says what it was after
CurrentMessage(what, c, p, text) ==
  LET at == " in JSON at position " \o NumToStr(p) IN
  CASE what = "unterminated string" -> "Unterminated string" \o at
    [] what = "control character" -> "Bad control character in string literal" \o at
    [] what = "escape" -> "Bad escaped character" \o at
    [] what = "digit after minus" -> "No number after minus sign" \o at
    [] what = "fraction digit" -> "Unterminated fractional number" \o at
    [] what = "exponent digit" -> "Exponent part is missing a number" \o at
    [] what = "first name" -> "Expected property name or '}'" \o at
    [] what = "name" -> "Expected double-quoted property name" \o at
    [] what = "colon" -> "Expected ':' after property name" \o at
    [] what = "comma or brace" -> "Expected ',' or '}' after property value" \o at
    [] what = "comma or bracket" -> "Expected ',' or ']' after array element" \o at
    [] what = "end" -> "Unexpected non-whitespace character after JSON at position "
                       \o NumToStr(p)
    [] OTHER -> IF c = "" THEN "Unexpected end of JSON input"
                ELSE "Unexpected token '" \o c \o "', \"" \o text \o "\" is not valid JSON"

\* e.message of the exception JSON.parse(text) throws under the engine
ParserMessage(engine, text) ==
  With(JsonParse(text), LAMBDA r :
    IF engine = "V8 10" THEN ClassicMessage(Ch(text, r.next), r.next - 1)
    ELSE CurrentMessage(r.what, Ch(text, r.next), r.next - 1, text))

(***************************************************************************)
(* locateJsonError.                                                        *)
(***************************************************************************)
\* a match of prefix (\d+) at index i: [at: the index, pos: the number], at = 0: none
NumberAfter(msg, prefix, i) ==
  LET d == i + Len(prefix)
      e == SkipSet(msg, d, Digit)
  IN IF StartsAt(msg, i, prefix) /\ e > d THEN Match(e - i, Mid(msg, d, e - 1)) ELSE NoMatch

AtPosition(msg, i) == NumberAfter(msg, "at position ", i)

Position(msg, i) == NumberAfter(msg, "position ", i)

EndAtPosition(msg, i) == NumberAfter(msg, "Unexpected end of JSON input at position ", i)

NumberAtPosition(msg, i) == NumberAfter(msg, "Unexpected number at position ", i)

StringAtPosition(msg, i) == NumberAfter(msg, "Unexpected string at position ", i)

\* /Unexpected token '([^']+)' at position (\d+)/ : out is <<token, digits>>
QuotedTokenAtPosition(msg, i) ==
  LET a == i + Len("Unexpected token '")
      b == SkipSet(msg, a, {Ch(msg, k) : k \in a..Len(msg)} \ {"'"})
      n == AtPosition(msg, b + 2)
  IN IF StartsAt(msg, i, "Unexpected token '") /\ b > a /\ StartsAt(msg, b, "' ") /\ n.len > 0
       THEN Match(b + 2 + n.len - i, <<Mid(msg, a, b - 1), n.out>>)
       ELSE NoMatch

\* /Unexpected token ([^ ]+) at position (\d+)/ : out is <<token, digits>>
BareTokenAtPosition(msg, i) ==
  LET a == i + Len("Unexpected token ")
      b == SkipSet(msg, a, {Ch(msg, k) : k \in a..Len(msg)} \ {" "})
      n == AtPosition(msg, b + 1)
  IN IF StartsAt(msg, i, "Unexpected token ") /\ b > a /\ Ch(msg, b) = " " /\ n.len > 0
       THEN Match(b + 1 + n.len - i, <<Mid(msg, a, b - 1), n.out>>)
       ELSE NoMatch

\* the first of the nine patterns that matches decides: [pos, token], both optional
ErrorPosition(msg) ==
  IF Matches(AtPosition, msg)
    THEN [pos |-> Some(ParseInt(AtPosition(msg, FirstMatch(AtPosition, msg)).out)),
          token |-> None]
  ELSE IF Matches(Position, msg)
    THEN [pos |-> Some(ParseInt(Position(msg, FirstMatch(Position, msg)).out)),
          token |-> None]
  ELSE IF Matches(QuotedTokenAtPosition, msg)
    THEN LET m == QuotedTokenAtPosition(msg, FirstMatch(QuotedTokenAtPosition, msg)).out
         IN [pos |-> Some(ParseInt(m[2])), token |-> Some(m[1])]
  ELSE IF Matches(EndAtPosition, msg)
    THEN [pos |-> Some(ParseInt(EndAtPosition(msg, FirstMatch(EndAtPosition, msg)).out)),
          token |-> None]
  ELSE IF Matches(NumberAtPosition, msg)
    THEN [pos |-> Some(ParseInt(NumberAtPosition(msg, FirstMatch(NumberAtPosition, msg)).out)),
          token |-> None]
  ELSE IF Matches(StringAtPosition, msg)
    THEN [pos |-> Some(ParseInt(StringAtPosition(msg, FirstMatch(StringAtPosition, msg)).out)),
          token |-> None]
  ELSE IF Matches(BareTokenAtPosition, msg)
    THEN LET m == BareTokenAtPosition(msg, FirstMatch(BareTokenAtPosition, msg)).out
         IN [pos |-> Some(ParseInt(m[2])), token |-> Some(m[1])]
  ELSE [pos |-> None, token |-> None]

\* text.split('\n')
RECURSIVE SplitFrom(_, _)
SplitFrom(s, i) ==
  LET j == IndexOfFrom(s, "\n", i) IN
  IF j = 0 THEN <<From(s, i)>> ELSE <<Mid(s, i, j - 1)>> \o SplitFrom(s, j + 1)

SplitLines(s) == SplitFrom(s, 1)

Min(a, b) == IF a < b THEN a ELSE b

Max(a, b) == IF a > b THEN a ELSE b

Unlocated == [pos |-> None, line |-> None, col |-> None, token |-> None]

\* currentPos before line i (1-based): the lengths of the lines before it, + 1 each
RECURSIVE CurrentPos(_, _)
CurrentPos(lines, i) == IF i = 1 THEN 0 ELSE CurrentPos(lines, i - 1) + Len(lines[i - 1]) + 1

\* the loop over the lines with the column counted from 0
LocateInFromZero(lines, pos, token) ==
  With(Least({k \in 1..Len(lines) : CurrentPos(lines, k) + Len(lines[k]) >= pos}),
       LAMBDA i :
    IF i = 0 THEN Unlocated
    ELSE With(pos - CurrentPos(lines, i), LAMBDA col :
      IF col > 0 /\ col <= Len(lines[i]) + 1
        THEN [pos |-> Some(pos), line |-> Some(i), col |-> Some(col), token |-> token]
        ELSE Unlocated))

\* the loop over the lines: the first line i that reaches pos decides
LocateIn(lines, pos, token) ==
  With(Least({k \in 1..Len(lines) : CurrentPos(lines, k) + Len(lines[k]) >= pos}),
       LAMBDA i :
    IF i = 0 THEN Unlocated
    ELSE With(pos - CurrentPos(lines, i) + 1, LAMBDA col :
      IF col > 0 /\ col <= Len(lines[i]) + 1
        THEN [pos |-> Some(pos), line |-> Some(i), col |-> Some(col), token |-> token]
        ELSE Unlocated))

locateJsonError(msg, text) ==
  With(ErrorPosition(msg), LAMBDA found :
    IF found.pos = None THEN Unlocated
    ELSE LocateIn(SplitLines(text), Max(0, Min(Len(text) - 1, The(found.pos))),
                  found.token))

(***************************************************************************)
(* detectOriginalJsonErrors: the structural heuristics, line by line.      *)
(***************************************************************************)
\* lines.slice(0, lineNum).join('\n').length, lineNum = n - 1
RECURSIVE JoinedLength(_, _)
JoinedLength(lines, n) ==
  IF n = 1 THEN 0
  ELSE IF n = 2 THEN Len(lines[1])
  ELSE JoinedLength(lines, n - 1) + 1 + Len(lines[n - 1])

\* line.indexOf(w), 0-based, -1 when absent
IndexOf(line, w) == IndexOfFrom(line, w, 1) - 1

\* the line without its trailing \s*
TrimEnd(line) ==
  Upto(line, Greatest({j \in 1..Len(line) : Ch(line, j) \notin Space}))

EndsWith(s, c) == Len(s) > 0 /\ Ch(s, Len(s)) = c

\* /([^,]),,/
DoubleComma(line) ==
  \E j \in 1..Len(line) : Ch(line, j) # "," /\ StartsAt(line, j + 1, ",,")

\* /,\s*([}\]])/
CommaBeforeCloser(line) ==
  \E j \in 1..Len(line) :
    Ch(line, j) = "," /\ Ch(line, SkipSet(line, j + 1, Space)) \in {"}", "]"}

\* /^[a-zA-Z_][a-zA-Z0-9_]*\s*:/ on nextLine.trim(), for a nextLine that is truthy
StartsWithKey(lines, n) ==
  /\ n <= Len(lines)
  /\ lines[n] # ""
  /\ LET next == Trim(lines[n]) IN
       /\ Ch(next, 1) \in IdentStart
       /\ Ch(next, SkipSet(next, SkipSet(next, 2, WordChar), Space)) = ":"

\* /(\s*)([a-zA-Z0-9_]+|"[^"]*"|'[^']*'|true|false|null|None|True|False)\s*$/
ValueAtEnd(line) ==
  LET r == TrimEnd(line) IN
  /\ r # ""
  /\ \/ Ch(r, Len(r)) \in WordChar
     \/ \E q \in {"\"", "'"} :
          Ch(r, Len(r)) = q /\ \E j \in 1..(Len(r) - 1) : Ch(r, j) = q

\* (futureLine.match(/c/g) || []).length
Count(line, c) == Cardinality({j \in 1..Len(line) : Ch(line, j) = c})

\* the counting loop from line i on, with its break at zero
RECURSIVE Unclosed(_, _, _, _, _)
Unclosed(lines, i, count, open, close) ==
  IF i > Len(lines) THEN count
  ELSE LET c == count + Count(lines[i], open) - Count(lines[i], close) IN
       IF c = 0 THEN 0 ELSE Unclosed(lines, i + 1, c, open, close)

Found(pos, line, col, token, error) ==
  [pos |-> Some(pos), line |-> Some(line), col |-> Some(col),
   token |-> Some(token), error |-> Some(error)]

\* the column of the first comma of the pair: line.indexOf(',,') + 1
DoubleCommaColOfFirst(line) == IndexOf(line, ",,") + 1

\* col: line.indexOf(',,') + 2
DoubleCommaCol(line) == IndexOf(line, ",,") + 2

\* what the loop body returns for line n (1-based), None when it goes on
Heuristic(lines, n) ==
  LET line == lines[n]
      trimmed == Trim(line)
      before == JoinedLength(lines, n)
  IN
  IF trimmed = "" \/ StartsAt(trimmed, 1, "//") \/ StartsAt(trimmed, 1, "#") THEN None
  ELSE IF DoubleComma(line)
    THEN Some(Found(before + IndexOf(line, ",,") + 1, n, DoubleCommaCol(line), ",",
                    "Unexpected comma - remove duplicate comma"))
  ELSE IF CommaBeforeCloser(line)
    THEN Some(Found(before + IndexOf(line, ","), n, IndexOf(line, ",") + 1, ",",
                    "Unexpected comma - remove trailing comma"))
  ELSE IF EndsWith(TrimEnd(line), "}") /\ StartsWithKey(lines, n + 1)
    THEN Some(Found(before + Len(line), n, Len(line) + 1, ",",
                    "Missing comma - add comma after closing brace"))
  ELSE IF EndsWith(TrimEnd(line), "]") /\ StartsWithKey(lines, n + 1)
    THEN Some(Found(before + Len(line), n, Len(line) + 1, ",",
                    "Missing comma - add comma after closing bracket"))
  ELSE IF ValueAtEnd(line) /\ StartsWithKey(lines, n + 1)
    THEN Some(Found(before + Len(line), n, Len(line) + 1, ",",
                    "Missing comma - add comma after value"))
  ELSE IF EndsWith(TrimEnd(line), "{") /\ Unclosed(lines, n + 1, 1, "{", "}") > 0
    THEN Some(Found(before + Len(line), n, Len(line), "{",
                    "Missing closing brace - check bracket balance"))
  ELSE IF EndsWith(TrimEnd(line), "[") /\ Unclosed(lines, n + 1, 1, "[", "]") > 0
    THEN Some(Found(before + Len(line), n, Len(line), "[",
                    "Missing closing bracket - check bracket balance"))
  ELSE None

\* the first line on which a heuristic answers, 0 when none does
FirstHeuristic(lines) == Least({n \in 1..Len(lines) : Heuristic(lines, n) # None})

HeuristicLine(text) == FirstHeuristic(SplitLines(text))

StructuralMessage(errorMsg) ==
  \/ Includes(errorMsg, "Unexpected token")
  \/ Includes(errorMsg, "Unexpected end")
  \/ Includes(errorMsg, "Unexpected number")
  \/ Includes(errorMsg, "Unexpected string")

\* errorMsg is the message JSON.parse(text) threw; None is the function's null
detectOriginalJsonErrors(text, errorMsg) ==
  IF text = "" \/ JsonValid(text) THEN None
  ELSE With(HeuristicLine(text), LAMBDA n :
    IF n # 0 THEN Heuristic(SplitLines(text), n)
    ELSE IF StructuralMessage(errorMsg)
      THEN With(locateJsonError(errorMsg, text), LAMBDA fallbackResult :
             Some([pos |-> fallbackResult.pos, line |-> fallbackResult.line,
                   col |-> fallbackResult.col,
                   token |-> IF fallbackResult.pos = None THEN None
                             ELSE fallbackResult.token,
                   error |-> Some(errorMsg)]))
    ELSE None)

(***************************************************************************)
(* getErrorSuggestion.                                                     *)
(***************************************************************************)
ToLower(c) ==
  IF c \in UpperAlpha
    THEN LET k == CHOOSE n \in 1..26 : SubSeq("ABCDEFGHIJKLMNOPQRSTUVWXYZ", n, n) = c
         IN SubSeq("abcdefghijklmnopqrstuvwxyz", k, k)
    ELSE c

\* error.toLowerCase().includes(w)
LowerIncludes(error, w) ==
  \E i \in 1..Len(error) : \A k \in 1..Len(w) : ToLower(Ch(error, i + k - 1)) = Ch(w, k)

\* getErrorSuggestion with the token test moved ahead of the structural ones
getErrorSuggestionTokenFirst(error) ==
  IF error = "" THEN ""
  ELSE IF LowerIncludes(error, "unexpected token") THEN
    IF LowerIncludes(error, "'")
      THEN "Check for missing quotes around strings or keys"
      ELSE "Check for missing commas, brackets, or quotes"
  ELSE IF LowerIncludes(error, "duplicate comma") \/ LowerIncludes(error, "unexpected comma")
    THEN "Remove the duplicate or trailing comma"
  ELSE IF LowerIncludes(error, "missing comma")
    THEN "Add a comma to separate properties or array items"
  ELSE "Check the syntax around the highlighted position"

getErrorSuggestion(error) ==
  IF error = "" THEN ""
  ELSE IF LowerIncludes(error, "duplicate comma") \/ LowerIncludes(error, "unexpected comma")
    THEN "Remove the duplicate or trailing comma"
  ELSE IF LowerIncludes(error, "missing comma") THEN
    IF LowerIncludes(error, "after closing brace")
      THEN "Add a comma after the closing brace } before the next property"
    ELSE IF LowerIncludes(error, "after closing bracket")
      THEN "Add a comma after the closing bracket ] before the next property"
    ELSE IF LowerIncludes(error, "after value")
      THEN "Add a comma after the value before the next property"
    ELSE "Add a comma to separate properties or array items"
  ELSE IF LowerIncludes(error, "missing closing brace")
    THEN "Check that all opening braces { have matching closing braces }"
  ELSE IF LowerIncludes(error, "missing closing bracket")
    THEN "Check that all opening brackets [ have matching closing brackets ]"
  ELSE IF LowerIncludes(error, "bracket balance")
    THEN "Check that opening and closing brackets/braces are properly balanced"
  ELSE IF LowerIncludes(error, "unexpected token") THEN
    IF LowerIncludes(error, "'")
      THEN "Check for missing quotes around strings or keys"
      ELSE "Check for missing commas, brackets, or quotes"
  ELSE IF LowerIncludes(error, "unexpected end")
    THEN "Check for missing closing brackets, braces, or quotes"
  ELSE IF LowerIncludes(error, "unexpected number")
    THEN "Check for invalid number format or missing quotes"
  ELSE IF LowerIncludes(error, "unexpected string")
    THEN "Check for missing quotes or invalid string format"
  ELSE IF LowerIncludes(error, "duplicate key") THEN "Remove duplicate object keys"
  ELSE IF LowerIncludes(error, "=")
    THEN "Remove the \"=\" character - it's not valid in JSON"
  ELSE IF LowerIncludes(error, ";")
    THEN "Remove the \";\" character - it's not valid in JSON"
  ELSE IF LowerIncludes(error, "<") \/ LowerIncludes(error, ">")
    THEN "Remove the \"<\" or \">\" characters - they're not valid in JSON"
  ELSE "Check the syntax around the highlighted position"

(***************************************************************************)
(* safeParse.                                                              *)
(***************************************************************************)
\* /0[1-9]|\.\d+|\d+\.|\b(NaN|Infinity|undefined|0x..|0b..|0o..)\b|\d+[eE]/.test(text)
needsRepair(text) ==
  \/ \E i \in 1..Len(text) :
       \/ Ch(text, i) = "0" /\ Ch(text, i + 1) \in Digit \ {"0"}
       \/ Ch(text, i) = "." /\ Ch(text, i + 1) \in Digit
       \/ Ch(text, i) \in Digit /\ Ch(text, i + 1) \in {".", "e", "E"}
  \/ Matches(JsNaN, text) \/ Matches(JsInfinity, text) \/ Matches(JsUndefined, text)
  \/ Matches(HexLiteral, text) \/ Matches(BinaryLiteral, text) \/ Matches(OctalLiteral, text)

\* { ok: true, obj, cleaned }: obj is kept as the canonical text of the value.
\* passes counts the repairs made on the way, against is the text that was located in.
Parsed(cleaned, passes) ==
  [ok |-> Some(TRUE), obj |-> Some(JsonParse(cleaned).canon), cleaned |-> cleaned,
   error |-> None, pos |-> None, line |-> None, col |-> None, token |-> None,
   passes |-> passes, against |-> None]

\* a failure that hands back the raw text in place of the repaired one
RejectionWithRawText(text, cleaned, passes, lastMessage, originalErrorInfo, result) ==
  [ok |-> Some(FALSE), obj |-> None, cleaned |-> text,
   error |-> Some(lastMessage), pos |-> None, line |-> None, col |-> None,
   token |-> None, passes |-> passes, against |-> None]

\* the two ways out of a failure: what detectOriginalJsonErrors found in the
\* text, or else the last parser message located in the cleaned text
Rejection(text, cleaned, passes, lastMessage, originalErrorInfo, result) ==
  IF originalErrorInfo # None
    THEN [ok |-> Some(FALSE), obj |-> None, cleaned |-> cleaned,
          error |-> IF TruthyString(The(originalErrorInfo).error) # None
                      THEN The(originalErrorInfo).error
                    ELSE IF lastMessage # "" THEN Some(lastMessage)
                    ELSE Some("Unknown error"),
          pos |-> TruthyNumber(The(originalErrorInfo).pos),
          line |-> TruthyNumber(The(originalErrorInfo).line),
          col |-> TruthyNumber(The(originalErrorInfo).col),
          token |-> TruthyString(The(originalErrorInfo).token),
          passes |-> passes, against |-> Some(text)]
    ELSE [ok |-> Some(FALSE), obj |-> None, cleaned |-> cleaned,
          error |-> Some(lastMessage),
          pos |-> TruthyNumber(result.pos), line |-> TruthyNumber(result.line),
          col |-> TruthyNumber(result.col), token |-> TruthyString(result.token),
          passes |-> passes, against |-> Some(cleaned)]

\* { ok: false, ... } after the last parse, of cleaned, threw
Rejected(engine, text, cleaned, passes) ==
  Rejection(text, cleaned, passes, ParserMessage(engine, cleaned),
            detectOriginalJsonErrors(text, ParserMessage(engine, text)),
            locateJsonError(ParserMessage(engine, cleaned), cleaned))

\* a retry that goes on to a third pass when the second one fails
RetryThrice(engine, text, cleaned) ==
  IF JsonValid(cleaned) THEN Parsed(cleaned, 1)
  ELSE With(repairJson(cleaned), LAMBDA doubleCleaned :
    IF JsonValid(doubleCleaned) THEN Parsed(doubleCleaned, 2)
    ELSE Rejected(engine, text, repairJson(doubleCleaned), 3))

\* the parse of the once repaired text, and the second pass when it fails
Retry(engine, text, cleaned) ==
  IF JsonValid(cleaned) THEN Parsed(cleaned, 1)
  ELSE With(repairJson(cleaned), LAMBDA doubleCleaned :
    IF JsonValid(doubleCleaned) THEN Parsed(doubleCleaned, 2)
    ELSE Rejected(engine, text, doubleCleaned, 2))

\* the needsRepair branch: one pass
Single(engine, text, cleaned) ==
  IF JsonValid(cleaned) THEN Parsed(cleaned, 1) ELSE Rejected(engine, text, cleaned, 1)

\* safeParse with the test for blank input left out
safeParseWithoutBlankCheck(engine, text) ==
  IF needsRepair(text) THEN Single(engine, text, repairJson(text))
  ELSE IF JsonValid(text) THEN Parsed(text, 0)
  ELSE Retry(engine, text, repairJson(text))

safeParse(engine, text) ==
  IF Trim(text) = ""
    THEN [ok |-> None, obj |-> None, cleaned |-> "", error |-> None, pos |-> None,
          line |-> None, col |-> None, token |-> None, passes |-> 0, against |-> None]
  ELSE IF needsRepair(text) THEN Single(engine, text, repairJson(text))
  ELSE IF JsonValid(text) THEN Parsed(text, 0)
  ELSE Retry(engine, text, repairJson(text))

(***************************************************************************)
(* The processor: useJsonProcessor's state, and the calls made on it.      *)
(***************************************************************************)
VARIABLES
  inputValue,       \* useState('')
  processedResult,  \* useState(null): None, or Some([input, result])
  engine,           \* the JavaScript engine the page runs on
  typed,            \* how many fragments have been typed into the input
  repaired,         \* what repairJson gave, called over and over on the input
  suggestion,       \* the error last shown with its suggestion: [error, text]
  located,          \* the last call of locateJsonError: [msg, text, result]
  scan,             \* the single-quote loop under way: [from, s, pos, iterations, done]
  liveMode,         \* the liveMode argument of the hook
  liveTimer,        \* liveTimerRef: the pending timeout, with the text it will process
  mounted,          \* whether the component is mounted
  effectPending     \* whether a run of the live effect, or its cleanup, is outstanding

vars ==
  <<inputValue, processedResult, engine, typed, repaired, suggestion, located, scan,
    liveMode, liveTimer, mounted, effectPending>>

\* texts pasted into the input as a whole
Samples ==
  { "{user: 'nate', id: 12345, active: True, tags: ['a','b',],}",
    "{\"a\": 1} \"b\": 2",
    "{\"a\": 1",
    "{\"a\": 1,,\"b\":2}",
    "{\n\"a\": 1,,\n\"b\": 2}",
    "[a, b, c]",
    "[a, b, 1.5]",
    "{a:\"x",
    "{\"a\": 1}",
    "[\"True\", 0.5]",
    "{\"a\": \"1ee\"}",
    "{\"a\": \"NaN\"}",
    "\"a#b\"",
    "{\n",
    ",,1,,2",
    "{\"a\": .5, \"b\": 5.}",
    "{\"c\": \"#fff\", \"a\": .5}",
    "{a: \"null\"}",
    "{a: \"x: word, y\"}",
    "{\"a\": 1,// c\n\"b\": 2}",
    "{\"a\": 1, // c\n\"b\": 2}",
    "{a: \"http://x\"}",
    "{\"a\": \"True\"} // c",
    "[{\"a\":1} {\"b\":2} [1] [2] {\"c\":3}]",
    "{\"a\": [1] b: {\"c\": 1} d: 2}",
    "{\"a\": 007, \"b\": [0123], \"d\": 0.5}",
    "{\"a\": 0123, \"d\": 0.5}",
    "[1, 2]\nb: 2",
    "{\"a\": 1, \"b\": 2,} \"c\"",
    "{\"a\": 1 = 2}",
    "= 1" }

\* fragments typed at the end of the input
Keys == {" ", "\n", ",", ",,", "}", "]", "x", "\"", ".5", ": 1"}

MaxTyped == 1

MaxPasses == 2

Init ==
  /\ inputValue = ""
  /\ processedResult = None
  /\ engine \in Engines
  /\ typed = 0
  /\ repaired = <<>>
  /\ suggestion = None
  /\ located = None
  /\ scan = None
  /\ liveMode = FALSE
  /\ liveTimer = None
  /\ mounted = TRUE
  /\ effectPending = FALSE

\* setInputValue(sampleData), or a paste over the whole input; the input is
\* edited before it is processed, and cleared after
Paste ==
  /\ processedResult = None
  /\ \E s \in Samples : inputValue' = s
  /\ typed' = 0
  /\ repaired' = <<>>
  /\ UNCHANGED <<processedResult, engine, suggestion, located, scan, liveMode, liveTimer, mounted, effectPending>>

\* setInputValue from the input's onChange
Type ==
  /\ processedResult = None
  /\ typed < MaxTyped
  /\ \E k \in Keys : inputValue' = inputValue \o k
  /\ typed' = typed + 1
  /\ repaired' = <<>>
  /\ UNCHANGED <<processedResult, engine, suggestion, located, scan, liveMode, liveTimer, mounted, effectPending>>

\* processInput(inputValue)
processInput ==
  /\ processedResult' = Some([input |-> inputValue, result |-> safeParse(engine, inputValue)])
  /\ UNCHANGED <<inputValue, engine, typed, repaired, suggestion, located, scan, liveMode, liveTimer, mounted, effectPending>>

\* processManual()
processManual ==
  /\ mounted
  /\ Trim(inputValue) # ""
  /\ processedResult' = Some([input |-> inputValue, result |-> safeParse(engine, inputValue)])
  /\ UNCHANGED <<inputValue, engine, typed, repaired, suggestion, located, scan, liveMode, liveTimer, mounted, effectPending>>

clearInput ==
  /\ inputValue' = ""
  /\ processedResult' = None
  /\ typed' = 0
  /\ repaired' = <<>>
  /\ UNCHANGED <<engine, suggestion, located, scan, liveMode, liveTimer, mounted, effectPending>>

Next == Paste \/ Type \/ processInput \/ processManual \/ clearInput

Spec == Init /\ [][Next]_vars

(***************************************************************************)
(* repairJson on its own, applied to the input and again to what it gave.  *)
(***************************************************************************)
Repair ==
  /\ Len(repaired) < MaxPasses
  /\ repaired' = Append(repaired,
                        repairJson(IF repaired = <<>> THEN inputValue
                                   ELSE repaired[Len(repaired)]))
  /\ UNCHANGED <<inputValue, processedResult, engine, typed, suggestion, located, scan, liveMode, liveTimer, mounted, effectPending>>

NextRepair == Paste \/ Type \/ Repair

SpecRepair == Init /\ [][NextRepair]_vars

(***************************************************************************)
(* getErrorSuggestion on its own, applied to error messages put together   *)
(* from the wordings it looks for.                                         *)
(***************************************************************************)
Wordings ==
  { "", "Unexpected comma", "duplicate comma",
    "Missing comma - add comma after closing brace",
    "Missing comma - add comma after closing bracket",
    "Missing comma - add comma after value",
    "Missing comma",
    "Missing closing brace", "Missing closing bracket", "check bracket balance",
    "Unexpected token } in JSON", "Unexpected token 'a'",
    "Unexpected end of JSON input", "Unexpected number in JSON",
    "Unexpected string in JSON", "Duplicate key", "a = b", "a; b", "<a", "a>",
    "Expected property name" }

Messages == {""} \cup {a \o " " \o b : a, b \in Wordings}

\* getErrorSuggestion(error || '', line, col) for the error being shown
Suggest ==
  /\ suggestion = None
  /\ \E e \in Messages : suggestion' = Some([error |-> e, text |-> getErrorSuggestion(e)])
  /\ UNCHANGED <<inputValue, processedResult, engine, typed, repaired, located, scan, liveMode, liveTimer, mounted, effectPending>>

NextSuggest == Suggest

SpecSuggest == Init /\ [][NextSuggest]_vars

(***************************************************************************)
(* locateJsonError on its own, applied to parser messages of the shapes    *)
(* the engines produce and to short texts of one or several lines.         *)
(***************************************************************************)
LocateOffsets == {0, 1, 2, 3, 5, 8, 9, 30}

\* messages that embed an offset: what stands before and after the number
LocateShapes ==
  { [before |-> "Unexpected token } at position ", after |-> ""],
    [before |-> "Unexpected token '}' at position ", after |-> ""],
    [before |-> "Unexpected token } in JSON at position ", after |-> ""],
    [before |-> "Unterminated string in JSON at position ", after |-> ""],
    [before |-> "Expected ',' or '}' after property value in JSON at position ",
     after |-> " (line 1 column 2)"],
    [before |-> "Bad control character, position ", after |-> ""] }

ShapedMessage(shape, n) == shape.before \o NumToStr(n) \o shape.after

\* two messages without an offset, and the shapes with each of the offsets
LocateMessages ==
  { "Unexpected end of JSON input", "Unexpected token '}', \"[1,}\" is not valid JSON" }
    \cup {ShapedMessage(sh, n) : sh \in LocateShapes, n \in LocateOffsets}

LocateTexts ==
  { "", "x", "\n", "x\n", "{\"a\": 1,}", "{\n\"a\": 1,,\n\"b\": 2}", "[1,\n\n2" }

\* locateJsonError(msg, text) for one message and one text
Locate ==
  /\ located = None
  /\ \E m \in LocateMessages, t \in LocateTexts :
       located' = Some([msg |-> m, text |-> t, result |-> locateJsonError(m, t)])
  /\ UNCHANGED <<inputValue, processedResult, engine, typed, repaired, suggestion, scan, liveMode, liveTimer, mounted, effectPending>>

NextLocate == Locate

SpecLocate == Init /\ [][NextLocate]_vars

(***************************************************************************)
(* The single-quote conversion loop of repairJson, one iteration at a      *)
(* time: scan holds the text the loop was entered with (from), the text as *)
(* rewritten so far (s), the scan position (pos, 1-based), the number of   *)
(* iterations made and whether the loop has been left.                     *)
(***************************************************************************)
ScanTexts ==
  { "", "'", "''", "'a'", "a'b", "'a", "['a\"b', 'c]", "'\"\"\"'", "{'a': 'b'}",
    "'a\\'b'", "'a\\'", "'\\\\'", "''''", "'''", "['x', 'y', 'z']",
    "it's 'a' \"b\"", "'\"' '\"' '", "\"'\"" }

\* let pos = 0, on entering step 3 of repairJson
StartScan ==
  /\ scan = None
  /\ \E t \in ScanTexts :
       scan' = Some([from |-> t, s |-> t, pos |-> 1, iterations |-> 0, done |-> FALSE])
  /\ UNCHANGED <<inputValue, processedResult, engine, typed, repaired, suggestion, located, liveMode, liveTimer, mounted, effectPending>>

\* while (pos < s.length) { ... }: one iteration, or the exit
QuoteStep ==
  /\ scan # None
  /\ ~The(scan).done
  /\ scan' = Some(With(QuoteIteration(The(scan).s, The(scan).pos), LAMBDA n :
                [from |-> The(scan).from, s |-> n.s, pos |-> n.pos,
                 iterations |-> IF n.done THEN The(scan).iterations
                                ELSE The(scan).iterations + 1,
                 done |-> n.done]))
  /\ UNCHANGED <<inputValue, processedResult, engine, typed, repaired, suggestion, located, liveMode, liveTimer, mounted, effectPending>>

NextQuotes == StartScan \/ QuoteStep

SpecQuotes == Init /\ [][NextQuotes]_vars

(***************************************************************************)
(* Live mode. React commits a change of state first and runs the effects   *)
(* whose dependencies changed afterwards, as a step of its own; a timer    *)
(* that is due may fire in between. effectPending is that outstanding run  *)
(* of the live effect. React runs an outstanding effect before it renders  *)
(* again, so an operation that changes a dependency of the effect starts   *)
(* with that run. In Spec live mode is off, the timer is never set and the *)
(* inputs change only while there is no result: the effect changes nothing *)
(* there, and Paste, Type and clearInput stand for the call with the       *)
(* effect that follows it.                                                 *)
(***************************************************************************)
LiveTexts == {"", " ", "1", "[1", "{a: 1}"}

\* the hook after its first render, with settings.live as stored
InitLive ==
  /\ inputValue = ""
  /\ processedResult = None
  /\ engine \in Engines
  /\ typed = 0
  /\ repaired = <<>>
  /\ suggestion = None
  /\ located = None
  /\ scan = None
  /\ liveMode \in BOOLEAN
  /\ liveTimer = None
  /\ mounted = TRUE
  /\ effectPending = FALSE

\* the live effect that leaves the result of a blank input in place
LiveEffectKeepingResult(text, live, result) ==
  IF Trim(text) = "" \/ ~live
    THEN [liveTimer |-> None, processedResult |-> result]
    ELSE [liveTimer |-> Some(text), processedResult |-> result]

\* the live effect that sets no timer
LiveEffectWithoutTimer(text, live, result) ==
  IF Trim(text) = "" \/ ~live
    THEN [liveTimer |-> None,
          processedResult |-> IF Trim(text) = "" THEN None ELSE result]
    ELSE [liveTimer |-> None, processedResult |-> result]

\* the cleanup of the effect's last run and its body, for inputValue = text
\* and liveMode = live: the timer and the result it leaves
LiveEffect(text, live, result) ==
  IF Trim(text) = "" \/ ~live
    THEN [liveTimer |-> None,
          processedResult |-> IF Trim(text) = "" THEN None ELSE result]
    ELSE [liveTimer |-> Some(text), processedResult |-> result]

\* the timer and the result once an outstanding run of the effect is made
Flushed ==
  IF effectPending THEN LiveEffect(inputValue, liveMode, processedResult)
  ELSE [liveTimer |-> liveTimer, processedResult |-> processedResult]

\* setInputValue(t) with a new text: onChange, the drop of a file, the sample
setInputValue ==
  /\ mounted
  /\ \E t \in LiveTexts \ {inputValue} : inputValue' = t
  /\ liveTimer' = Flushed.liveTimer
  /\ processedResult' = Flushed.processedResult
  /\ effectPending' = TRUE
  /\ UNCHANGED <<engine, typed, repaired, suggestion, located, scan, liveMode, mounted>>

\* updateSettings({ live: checked })
toggleLiveMode ==
  /\ mounted
  /\ liveMode' = ~liveMode
  /\ liveTimer' = Flushed.liveTimer
  /\ processedResult' = Flushed.processedResult
  /\ effectPending' = TRUE
  /\ UNCHANGED <<inputValue, engine, typed, repaired, suggestion, located, scan, mounted>>

\* clearInput() in live mode as out of it: the timer is left to the effect
clearInputLive ==
  /\ mounted
  /\ inputValue # "" \/ processedResult # None
  /\ inputValue' = ""
  /\ processedResult' = None
  /\ liveTimer' = Flushed.liveTimer
  /\ effectPending' = (inputValue # "")
  /\ UNCHANGED <<engine, typed, repaired, suggestion, located, scan, liveMode, mounted>>

\* the outstanding run of the live effect; after unmount, its cleanup alone
liveEffect ==
  /\ effectPending
  /\ liveTimer' = IF mounted THEN Flushed.liveTimer ELSE None
  /\ processedResult' = IF mounted THEN Flushed.processedResult ELSE processedResult
  /\ effectPending' = FALSE
  /\ UNCHANGED <<inputValue, engine, typed, repaired, suggestion, located, scan, liveMode, mounted>>

\* the timeout callback, 120 ms after the effect set it: processInput(inputValue)
\* with the inputValue of the render that set it
liveTimerFires ==
  /\ liveTimer # None
  /\ liveTimer' = None
  /\ processedResult' =
       IF mounted
         THEN Some([input |-> The(liveTimer), result |-> safeParse(engine, The(liveTimer))])
         ELSE processedResult
  /\ UNCHANGED <<inputValue, engine, typed, repaired, suggestion, located, scan, liveMode, mounted, effectPending>>

\* the component is unmounted; the cleanup of the effect is outstanding
unmount ==
  /\ mounted
  /\ mounted' = FALSE
  /\ liveTimer' = Flushed.liveTimer
  /\ processedResult' = Flushed.processedResult
  /\ effectPending' = TRUE
  /\ UNCHANGED <<inputValue, engine, typed, repaired, suggestion, located, scan, liveMode>>

NextLive ==
  \/ setInputValue
  \/ toggleLiveMode
  \/ clearInputLive
  \/ processManual
  \/ liveEffect
  \/ liveTimerFires
  \/ unmount

SpecLive == InitLive /\ [][NextLive]_vars

\* a timer that is set fires. liveTimerFires is enabled exactly while liveTimer
\* is set, and unsets it: this is WF_vars(liveTimerFires), in the form that
\* needs no successor of liveTimerFires to be computed
TimersFire == []<>(liveTimer = None)

\* React runs the effects it has outstanding, and timers fire
SpecLiveFair == InitLive /\ [][NextLive]_vars /\ WF_vars(liveEffect) /\ TimersFire

(***************************************************************************)
(* Properties of the processor (Spec) and of repairJson (SpecRepair).      *)
(***************************************************************************)
\* the lines of the processed input
RawLines(r) == SplitLines(r.input)

\* C1: a text that strict parsing accepts is processed to ok = true with the
\* cleaned text equal to the input, character for character, also when the
\* input matches the needsRepair pre-check.
C1_ValidInputUnchanged ==
  \A r \in processedResult :
    JsonValid(r.input) => r.result.ok = Some(TRUE) /\ r.result.cleaned = r.input

\* a valid input that matches needsRepair, and that the rewrite rules would
\* change, has been processed and came back as it was
C1_Witness ==
  \E r \in processedResult :
    /\ JsonValid(r.input)
    /\ needsRepair(r.input)
    /\ repairJsonWithoutShortCircuit(r.input) # r.input
    /\ r.result.ok = Some(TRUE)
    /\ r.result.cleaned = r.input

\* C2: when the raw text and the once repaired text both fail strict
\* parsing, a second repair pass is applied, and the result is ok = true if
\* the twice repaired text parses, whether or not the input matches the
\* needsRepair pre-check.
C2_SecondPassAlways ==
  \A r \in processedResult :
    (Trim(r.input) # "" /\ ~JsonValid(r.input) /\ ~JsonValid(repairJson(r.input)))
      => /\ r.result.passes = 2
         /\ JsonValid(repairJson(repairJson(r.input))) => r.result.ok = Some(TRUE)

\* C3: a failed result that carries pos, line or col had them computed
\* against the raw input text, never against a repaired text.
C3_PositionAgainstRaw ==
  \A r \in processedResult :
    (r.result.ok = Some(FALSE)
       /\ (r.result.pos # None \/ r.result.line # None \/ r.result.col # None))
      => r.result.against = Some(r.input)

\* C4: the line and col of a failed result lie inside the raw input:
\* 1 <= line <= number of lines, 1 <= col <= length of that line + 1.
C4_PositionInsideRaw ==
  \A r \in processedResult :
    (r.result.ok = Some(FALSE) /\ r.result.line # None /\ r.result.col # None)
      => /\ The(r.result.line) \in 1..Len(RawLines(r))
         /\ The(r.result.col) \in 1..(Len(RawLines(r)[The(r.result.line)]) + 1)

\* C5: repairJson is idempotent: a second pass over the output of a first
\* pass changes nothing.
C5_RepairIdempotent == Len(repaired) >= 2 => repaired[2] = repaired[1]

\* C6: repairJson returns a text that strict parsing accepts unchanged, so
\* what it returns parses to the same value.
C6_ValidTextIsFixed ==
  (Len(repaired) >= 1 /\ JsonValid(inputValue))
    => /\ repaired[1] = inputValue
       /\ JsonParse(repaired[1]).canon = JsonParse(inputValue).canon

\* repairJson has been applied to a valid text in which a string holds what
\* the comment and literal rules look for
C6_Witness ==
  /\ Len(repaired) >= 1
  /\ JsonValid(inputValue)
  /\ Includes(inputValue, "#") \/ Includes(inputValue, "True")
  /\ repairJsonWithoutShortCircuit(inputValue) # inputValue
  /\ repaired[1] = inputValue

\* C7: the quasi-JSON scenario is processed to ok = true, and the cleaned
\* text parses to the value with True as the boolean true, not as a string.
C7_PythonLiteralsParsed ==
  \A r \in processedResult :
    r.input = "{user: 'nate', id: 12345, active: True, tags: ['a','b',],}"
      => /\ r.result.ok = Some(TRUE)
         /\ r.result.obj =
              Some("{\"user\":\"nate\",\"id\":12345,\"active\":true,\"tags\":[\"a\",\"b\"]}")

\* the index of a } that closes a complete JSON value and is followed, with
\* no comma, by a quoted key and a colon; 0 when there is none
BraceThenQuotedKey(text) ==
  Least({i \in 1..Len(text) :
           /\ Ch(text, i) = "}"
           /\ JsonValid(Upto(text, i))
           /\ Ch(text, SkipSet(text, i + 1, Space)) = "\""
           /\ ParseString(text, SkipSet(text, i + 1, Space)).ok
           /\ Ch(text, SkipSet(text, ParseString(text, SkipSet(text, i + 1, Space)).next,
                               Space)) = ":"})

\* C8: a closing } followed by a quoted key and colon with no comma is
\* reported as ok = false with a missing-comma diagnostic on the line of the
\* }, at line 1 col 10 for {"a": 1} "b": 2, and the suggestion for its error
\* text is to add a comma after the closing brace.
C8_MissingCommaAfterBrace ==
  \A r \in processedResult :
    BraceThenQuotedKey(r.input) # 0
      => /\ r.result.ok = Some(FALSE)
         /\ r.result.error # None
         /\ LowerIncludes(The(r.result.error), "missing comma")
         /\ getErrorSuggestion(The(r.result.error))
              = "Add a comma after the closing brace } before the next property"
         /\ r.result.line # None /\ r.result.col # None
         /\ r.input = "{\"a\": 1} \"b\": 2"
              => r.result.line = Some(1) /\ r.result.col = Some(10)

\* C9: an input that opens with { and holds no } at all is reported as
\* ok = false with 'Missing closing brace - check bracket balance' and token
\* '{', whether or not the { ends its line.
C9_UnclosedBrace ==
  \A r \in processedResult :
    (Ch(Trim(r.input), 1) = "{" /\ ~Includes(r.input, "}"))
      => /\ r.result.ok = Some(FALSE)
         /\ r.result.error = Some("Missing closing brace - check bracket balance")
         /\ r.result.token = Some("{")

\* the first line of the input on which the detection loop finds a defect
\* holds a doubled comma that follows a character other than a comma
DoubleCommaFirst(r) ==
  /\ HeuristicLine(r.input) # 0
  /\ DoubleComma(RawLines(r)[HeuristicLine(r.input)])

RECURSIVE ZeroAddedFrom(_, _)
ZeroAddedFrom(s, i) ==
  IF i > Len(s) THEN ""
  ELSE IF Ch(s, i) = "."
    THEN (IF Ch(s, i - 1) \in Digit THEN "" ELSE "0") \o "."
         \o (IF Ch(s, i + 1) \in Digit THEN "" ELSE "0") \o ZeroAddedFrom(s, i + 1)
  ELSE Ch(s, i) \o ZeroAddedFrom(s, i + 1)

\* an object text without arrays that is not JSON as written and is JSON
\* once its bare decimals have their zero
BareDecimalValues(text) ==
  /\ ~JsonValid(text)
  /\ ~Includes(text, "[")
  /\ JsonValid(ZeroAddedFrom(text, 1))

\* C11: object values written .5 or 5. in otherwise valid JSON are processed
\* to ok = true after one repair pass, and the cleaned text parses to the
\* same value with the zeros added (0.5 and 5.0).
C11_BareDecimalsRepaired ==
  \A r \in processedResult :
    BareDecimalValues(r.input)
      => /\ r.result.ok = Some(TRUE)
         /\ r.result.passes = 1
         /\ r.result.obj = Some(JsonParse(ZeroAddedFrom(r.input, 1)).canon)

\* C12: empty or whitespace-only input gives ok = null with no error,
\* position, token or parsed value, and neither a repair pass nor a call of
\* the error locator is made.
C12_BlankInputIsNoResult ==
  \A r \in processedResult :
    Trim(r.input) = ""
      => /\ r.result.ok = None /\ r.result.obj = None /\ r.result.error = None
         /\ r.result.pos = None /\ r.result.line = None /\ r.result.col = None
         /\ r.result.token = None
         /\ r.result.cleaned = ""
         /\ r.result.passes = 0
         /\ r.result.against = None

\* an input of white space only has been processed
C12_Witness ==
  \E r \in processedResult :
    r.input # "" /\ Trim(r.input) = "" /\ r.result.ok = None

\* C13: every call of safeParse ends in exactly one of the outcomes
\* ok = null, ok = true (a value, no error) and ok = false (an error, no
\* value), after at most two repair passes.
C13_ThreeOutcomes ==
  \A r \in processedResult :
    /\ r.result.ok \in {None, Some(TRUE), Some(FALSE)}
    /\ r.result.passes \in 0..2
    /\ r.result.ok = None => r.result.obj = None /\ r.result.error = None
    /\ r.result.ok = Some(TRUE) => r.result.obj # None /\ r.result.error = None
    /\ r.result.ok = Some(FALSE) => r.result.obj = None /\ r.result.error # None

\* a call has failed after its second repair pass
C13_Witness ==
  \E r \in processedResult : r.result.ok = Some(FALSE) /\ r.result.passes = 2

\* C14: a failed result carries a non-empty error and the cleaned text of
\* the last repair pass run: repairJson(input) on the needsRepair branch,
\* repairJson(repairJson(input)) otherwise.
C14_FailureCarriesCleaned ==
  \A r \in processedResult :
    r.result.ok = Some(FALSE)
      => /\ r.result.error # None
         /\ The(r.result.error) # ""
         /\ r.result.cleaned = IF needsRepair(r.input) THEN repairJson(r.input)
                               ELSE repairJson(repairJson(r.input))

\* a call has failed with a cleaned text that the second pass changed
C14_Witness ==
  \E r \in processedResult :
    /\ r.result.ok = Some(FALSE)
    /\ ~needsRepair(r.input)
    /\ r.result.cleaned # repairJson(r.input)
    /\ r.result.cleaned = repairJson(repairJson(r.input))

\* a rung of a priority list: the wordings a message must all hold, and the
\* suggestion it then gets
Rung(all, text) == [all |-> all, text |-> text]

StructuralRungs ==
  << Rung({"duplicate comma"}, "Remove the duplicate or trailing comma"),
     Rung({"unexpected comma"}, "Remove the duplicate or trailing comma"),
     Rung({"missing comma", "after closing brace"},
          "Add a comma after the closing brace } before the next property"),
     Rung({"missing comma", "after closing bracket"},
          "Add a comma after the closing bracket ] before the next property"),
     Rung({"missing comma", "after value"},
          "Add a comma after the value before the next property"),
     Rung({"missing comma"}, "Add a comma to separate properties or array items"),
     Rung({"missing closing brace"},
          "Check that all opening braces { have matching closing braces }"),
     Rung({"missing closing bracket"},
          "Check that all opening brackets [ have matching closing brackets ]"),
     Rung({"bracket balance"},
          "Check that opening and closing brackets/braces are properly balanced") >>

TokenRungs ==
  << Rung({"unexpected token", "'"}, "Check for missing quotes around strings or keys"),
     Rung({"unexpected token"}, "Check for missing commas, brackets, or quotes"),
     Rung({"unexpected end"}, "Check for missing closing brackets, braces, or quotes"),
     Rung({"unexpected number"}, "Check for invalid number format or missing quotes"),
     Rung({"unexpected string"}, "Check for missing quotes or invalid string format") >>

DuplicateKeyRungs == << Rung({"duplicate key"}, "Remove duplicate object keys") >>

CharacterRungs ==
  << Rung({"="}, "Remove the \"=\" character - it's not valid in JSON"),
     Rung({";"}, "Remove the \";\" character - it's not valid in JSON"),
     Rung({"<"}, "Remove the \"<\" or \">\" characters - they're not valid in JSON"),
     Rung({">"}, "Remove the \"<\" or \">\" characters - they're not valid in JSON"),
     Rung({}, "Check the syntax around the highlighted position") >>

\* the suggestion of the first rung whose wordings the message holds
FirstRung(rungs, error) ==
  rungs[Least({k \in 1..Len(rungs) : \A w \in rungs[k].all : LowerIncludes(error, w)})].text

\* C15 as stated: every non-empty message gets one non-empty suggestion,
\* the first match in the order comma defects, missing-comma variants,
\* unbalanced brackets, unexpected token/end/number/string, the characters
\* =, ;, < or >, and the generic suggestion when none of these matches.
C15_SuggestionByStatedOrder ==
  \A s \in suggestion :
    s.error # ""
      => /\ s.text # ""
         /\ s.text = FirstRung(StructuralRungs \o TokenRungs \o CharacterRungs, s.error)

\* C15 amended: the same, with the duplicate-key cause ranked after the
\* unexpected token/end/number/string causes and before the characters.
C15_SuggestionByPriority ==
  \A s \in suggestion :
    s.error # ""
      => /\ s.text # ""
         /\ s.text = FirstRung(StructuralRungs \o TokenRungs \o DuplicateKeyRungs
                                 \o CharacterRungs, s.error)

\* a message with both a structural and a token-class wording has been
\* given the structural suggestion
C15_Witness ==
  \E s \in suggestion :
    /\ LowerIncludes(s.error, "unexpected token")
    /\ LowerIncludes(s.error, "missing comma")
    /\ LowerIncludes(s.error, "after value")
    /\ s.text = "Add a comma after the value before the next property"

\* the double-quoted strings of a text, quotes included, read from left to
\* right
RECURSIVE QuotedStrings(_, _)
QuotedStrings(s, i) ==
  IF i > Len(s) THEN {}
  ELSE IF Ch(s, i) # "\"" THEN QuotedStrings(s, i + 1)
  ELSE With(ParseString(s, i), LAMBDA q :
    IF q.ok THEN {Mid(s, i, q.next - 1)} \cup QuotedStrings(s, q.next)
    ELSE {})

\* C16: on input that is not valid JSON, repairJson leaves every already
\* double-quoted string as it is: each is found unchanged in the output,
\* whatever it holds (': word,', an apostrophe, '#', ';', null).
C16_QuotedStringsUntouched ==
  (Len(repaired) >= 1 /\ ~JsonValid(inputValue))
    => \A q \in QuotedStrings(inputValue, 1) : Includes(repaired[1], q)

\* where the one // of a text stands, when nothing else in the text is taken
\* for a comment and the // does not follow a colon; 0 otherwise
LineCommentAt(text) ==
  With(IndexOfFrom(text, "//", 1), LAMBDA k :
    IF /\ k > 1
       /\ Ch(text, k - 1) # ":"
       /\ IndexOfFrom(text, "//", k + 1) = 0
       /\ ~Includes(text, "#") /\ ~Includes(text, ";") /\ ~Includes(text, "/*")
      THEN k ELSE 0)

\* the text without its line comment: all that precedes the //, and the
\* rest from the end of that line
WithoutLineComment(text) ==
  Upto(text, LineCommentAt(text) - 1) \o From(text, EndOfLine(text, LineCommentAt(text)))

\* C17: a // comment that does not follow a colon is dropped from the // to
\* the end of its line and nothing before it is, so that JSON with such a
\* comment repairs to the value of the JSON without it; a // that follows a
\* colon is kept.
C17_LineCommentOnly ==
  Len(repaired) >= 1
    => /\ (LineCommentAt(inputValue) # 0 /\ JsonValid(WithoutLineComment(inputValue)))
            => /\ JsonValid(repaired[1])
               /\ JsonParse(repaired[1]).canon
                    = JsonParse(WithoutLineComment(inputValue)).canon
       /\ ~JsonValid(inputValue)
            => \A q \in QuotedStrings(inputValue, 1) :
                 Includes(q, "://") => Includes(repaired[1], q)

\* C18: when the input without its comments is strict JSON, repairJson
\* returns that comment-stripped text, with no other rule applied.
C18_StrippedValidReturned ==
  (Len(repaired) >= 1 /\ JsonValid(StripComments(inputValue)))
    => repaired[1] = StripComments(inputValue)

\* a text without its white space
RECURSIVE Squeeze(_, _)
Squeeze(s, i) ==
  IF i > Len(s) THEN ""
  ELSE (IF Ch(s, i) \in Space THEN "" ELSE Ch(s, i)) \o Squeeze(s, i + 1)

\* what follows the white space after index i
NextToken(s, i) == SkipSet(s, i + 1, Space)

\* the closing } and ] that white space separates from a following {, [ or
\* identifier and colon
MissingCommaSites(text) ==
  {i \in 1..Len(text) :
     /\ Ch(text, i) \in {"}", "]"}
     /\ NextToken(text, i) > i + 1
     /\ \/ Ch(text, NextToken(text, i)) \in {"{", "["}
        \/ /\ Ch(text, NextToken(text, i)) \in IdentStart
           /\ Ch(text, SkipSet(text, SkipSet(text, NextToken(text, i), WordChar), Space))
                = ":"}

\* C19: repairJson puts a comma between a closing } or ] and a following
\* identifier-colon, { or [, in each of the six combinations.
C19_CommaAfterCloser ==
  Len(repaired) >= 1
    => \A i \in MissingCommaSites(inputValue) :
         Includes(Squeeze(repaired[1], 1),
                  Ch(inputValue, i) \o "," \o Ch(inputValue, NextToken(inputValue, i)))

\* a zero that opens a run of two or more digits, or follows only zeros in
\* it, in a run that starts a number
LeadingZeroIn(s, i) ==
  /\ Ch(s, i) = "0"
  /\ Ch(s, i + 1) \in Digit
  /\ \E j \in 1..i :
       /\ \A k \in j..i : Ch(s, k) = "0"
       /\ Ch(s, j - 1) \notin WordChar \cup {"."}

RECURSIVE ZerosStripped(_, _)
ZerosStripped(s, i) ==
  IF i > Len(s) THEN ""
  ELSE (IF LeadingZeroIn(s, i) THEN "" ELSE Ch(s, i)) \o ZerosStripped(s, i + 1)

\* C20: integer literals in value position, after a colon or in an array,
\* lose their leading zeros, one or several (0123 to 123, 007 to 7), and
\* 0.5 stays: JSON but for such zeros repairs to the value without them.
C20_LeadingZerosStripped ==
  (Len(repaired) >= 1 /\ ~JsonValid(inputValue) /\ JsonValid(ZerosStripped(inputValue, 1)))
    => /\ JsonValid(repaired[1])
       /\ JsonParse(repaired[1]).canon = JsonParse(ZerosStripped(inputValue, 1)).canon

(***************************************************************************)
(* Properties of locateJsonError (SpecLocate).                             *)
(***************************************************************************)
\* the offset locateJsonError keeps for the offset n of the message
Clamped(text, n) == Max(0, Min(Len(text) - 1, n))

\* the messages "Unexpected token X at position N", X bare or quoted
TokenShapes ==
  { [before |-> "Unexpected token } at position ", after |-> "", token |-> "}"],
    [before |-> "Unexpected token '}' at position ", after |-> "", token |-> "}"] }

\* C21: for a message of the shape "Unexpected token X at position N", with
\* X quoted or bare, locateJsonError returns the token X together with the
\* position derived from N.
C21_TokenWithPosition ==
  \A l \in located : \A sh \in TokenShapes, n \in LocateOffsets :
    l.msg = sh.before \o NumToStr(n) \o sh.after
      => /\ l.result.token = Some(sh.token)
         /\ l.result.pos = Some(Clamped(l.text, n))

\* the number of line ends among the first pos characters of the text
NewlinesBefore(text, pos) == Cardinality({k \in 1..pos : Ch(text, k) = "\n"})

\* the 1-based index of the last line end among the first pos characters, or 0
LastNewlineBefore(text, pos) ==
  IF NewlinesBefore(text, pos) = 0 THEN 0
  ELSE CHOOSE k \in 1..pos :
         Ch(text, k) = "\n" /\ \A j \in (k + 1)..pos : Ch(text, j) # "\n"

\* C23: for every text and every message containing "position N",
\* locateJsonError returns pos = N clamped to [0, length - 1] and a line and a
\* column, both present, that designate the character at offset pos of the
\* text: the position is never discarded.
C23_PositionAlwaysLocated ==
  \A l \in located : \A sh \in LocateShapes, n \in LocateOffsets :
    l.msg = ShapedMessage(sh, n)
      => /\ l.result.pos = Some(Clamped(l.text, n))
         /\ l.result.line = Some(NewlinesBefore(l.text, Clamped(l.text, n)) + 1)
         /\ l.result.col =
              Some(Clamped(l.text, n) - LastNewlineBefore(l.text, Clamped(l.text, n)) + 1)

\* an offset beyond the text, clamped onto the last character of a later line
C23_Witness ==
  \E l \in located : \E sh \in LocateShapes :
    /\ l.msg = ShapedMessage(sh, 30)
    /\ Len(l.text) < 30
    /\ l.result.pos = Some(Len(l.text) - 1)
    /\ l.result.line # None /\ The(l.result.line) >= 2
    /\ l.result.col # None

(***************************************************************************)
(* Properties of the diagnostics of a failed result (Spec).                *)
(***************************************************************************)
\* C22: every diagnostic of the heuristic scan of detectOriginalJsonErrors
\* has an offset pos and a (line, col) that denote the same character of the
\* raw text, pos = sum over the preceding lines of (length + 1) + col - 1,
\* on the first line and on later lines, for every kind of defect.
C22_OffsetMatchesLineCol ==
  \A r \in processedResult :
    ( /\ r.result.ok = Some(FALSE)
      /\ HeuristicLine(r.input) # 0
      /\ r.result.pos # None /\ r.result.line # None /\ r.result.col # None )
      => /\ The(r.result.line) = NewlinesBefore(r.input, The(r.result.pos)) + 1
         /\ The(r.result.col) =
              The(r.result.pos) - LastNewlineBefore(r.input, The(r.result.pos)) + 1

\* C24: a reported trailing comma has a line and col that designate the comma
\* which, up to white space, immediately precedes the closing } or ] on that
\* line of the raw text, not an earlier comma of the line.
C24_TrailingCommaDesignated ==
  \A r \in processedResult :
    ( /\ r.result.ok = Some(FALSE)
      /\ r.result.error = Some("Unexpected comma - remove trailing comma") )
      => /\ r.result.line # None /\ r.result.col # None
         /\ Ch(RawLines(r)[The(r.result.line)], The(r.result.col)) = ","
         /\ Ch(RawLines(r)[The(r.result.line)],
               SkipSet(RawLines(r)[The(r.result.line)], The(r.result.col) + 1, Space))
              \in {"}", "]"}

\* C25: in every failed result pos, line and col are all present or all
\* absent; a defect at the first character of the text is reported with
\* offset 0, line 1 and col 1.
C25_PositionAllOrNone ==
  \A r \in processedResult :
    r.result.ok = Some(FALSE)
      => /\ (r.result.pos = None) = (r.result.line = None)
         /\ (r.result.line = None) = (r.result.col = None)

\* the characters no JSON text holds outside a string
DisallowedChars == {"=", ";", "<", ">", "|", "&", "%", "$", "@", "!"}

\* the index at which strict parsing of the text stops
DefectIndex(text) == JsonParse(text).next

\* C26: a failed result for an input whose earliest defect is a disallowed
\* bare character, with no structural heuristic matching, has that character
\* as its token and the character's line and column in the raw text.
C26_BareCharacterReported ==
  \A r \in processedResult :
    ( /\ r.result.ok = Some(FALSE)
      /\ ~JsonValid(r.input)
      /\ HeuristicLine(r.input) = 0
      /\ Ch(r.input, DefectIndex(r.input)) \in DisallowedChars )
      => /\ r.result.token = Some(Ch(r.input, DefectIndex(r.input)))
         /\ r.result.line = Some(NewlinesBefore(r.input, DefectIndex(r.input) - 1) + 1)
         /\ r.result.col =
              Some(DefectIndex(r.input) - LastNewlineBefore(r.input, DefectIndex(r.input) - 1))

(***************************************************************************)
(* Properties of the single-quote conversion loop (SpecQuotes).            *)
(***************************************************************************)
\* an iteration of the loop that is not its exit
Iterates == scan # None /\ scan' # None /\ ~The(scan').done /\ scan' # scan

\* C27: repairJson terminates with a string for every input: each iteration
\* of the single-quote loop strictly advances the scan position and
\* strictly shortens what is left to scan, for an unterminated quote and
\* for a literal that grows by escaping; the loop makes no more iterations
\* than the text it was entered with has characters, and leaves with the
\* text repairJson goes on with.
C27_QuoteLoopAdvances ==
  /\ [][Iterates => /\ The(scan').pos > The(scan).pos
                    /\ Len(The(scan').s) - The(scan').pos
                         < Len(The(scan).s) - The(scan).pos]_vars
  /\ [](\A st \in scan :
          /\ st.iterations <= Len(st.from)
          /\ st.pos <= Len(st.s) + 1
          /\ st.done => st.s = SingleToDouble(st.from, 1))

\* the loop has been left after a literal that grew and an unterminated quote
C27_Witness ==
  \E st \in scan :
    /\ st.done
    /\ st.from = "['a\"b', 'c]"
    /\ st.s = "[\"a\\\"b\", 'c]"
    /\ st.iterations = 2

(***************************************************************************)
(* Properties of live mode (SpecLive, SpecLiveFair).                       *)
(***************************************************************************)
\* C28: a scheduled run is cancelled by every later change of the input,
\* by switching live mode off and by unmounting, before it fires: whenever
\* the live timer runs processInput, the text it processes is the current
\* inputValue, live mode is on and the component is mounted.
C28_TimerProcessesCurrentInput ==
  [][liveTimerFires => (The(liveTimer) = inputValue /\ liveMode /\ mounted)]_vars

\* C29: in live mode, when the input stops changing while it is non-blank,
\* the timer fires and from then on processedResult holds the result for the
\* current inputValue.
C29_EventuallyProcessed ==
  \A t \in LiveTexts \ {"", " "} :
    (<>[](inputValue = t /\ liveMode /\ mounted))
      => <>[](processedResult # None /\ The(processedResult).input = t)

\* in live mode the timer has fired for the input that is there
C29_Witness ==
  /\ liveMode /\ mounted /\ ~effectPending
  /\ liveTimer = None
  /\ inputValue = "{a: 1}"
  /\ processedResult # None
  /\ The(processedResult).input = inputValue
  /\ The(processedResult).result.ok = Some(TRUE)

\* C30: once the effects for a blank inputValue have run, processedResult
\* is null and no live timer is pending, whatever the hook's operations
\* were; no result is ever computed for a blank input.
C30_BlankInputHasNoResult ==
  /\ (mounted /\ ~effectPending /\ Trim(inputValue) = "")
       => (processedResult = None /\ liveTimer = None)
  /\ \A r \in processedResult : Trim(r.input) # ""

\* in live mode the effect has run for an input of white space only
C30_Witness ==
  /\ liveMode /\ mounted /\ ~effectPending
  /\ inputValue = " "
  /\ processedResult = None
  /\ liveTimer = None

====
